---- MODULE Spec2Model ----
(***************************************************************************)
(* Model of the VMware builder (src/builder/vmware/builder.go):            *)
(* Builder.Prepare, Builder.Run, Builder.Cancel and Builder.newDriver,     *)
(* together with the step runner and the ten pipeline steps that Run       *)
(* drives.  Durations are counted in seconds; strings that the code only   *)
(* compares with "" are TLA+ strings, strings that the code parses         *)
(* (durations) are sequences of one-character strings.                     *)
(***************************************************************************)
EXTENDS Integers, Sequences, FiniteSets, TLC

VARIABLES
    config,         \* b.config
    driver,         \* b.driver: "nil" or "fusion5"
    prepRet,        \* what Prepare returned: [kind, errs]
    rawIn,          \* the raw configuration Prepare was given (history)
    verifyIn,       \* whether the driver's Verify succeeds for Prepare (history)
    runner,         \* b.runner: 0 is nil, n is the runner made by the n-th Run
    pc,             \* position of the thread inside Builder.Run
    state,          \* the state bag of the current Run: the set of keys present
    idx,            \* the runner's loop: index of the next step
    executed,       \* the runner's stack of executed steps
    runLog,         \* steps whose run was invoked, in order (history)
    cleanupLog,     \* steps whose cleanup was invoked, in order (history)
    outdir,         \* entries present under config.OutputDir
    result,         \* what Run returned: [kind, dir, files]
    runs,           \* number of Run calls entered so far
    haltStep,       \* step whose run signalled halt in this Run, 0 if none (history)
    consecCancels,  \* Cancel calls made in a row most recently (history)
    cancelPending,  \* Cancel was called since the last Run returned (history)
    preCancelled,   \* the current Run was entered with cancelPending (history)
    cancelInRun,    \* Cancel was called since the current Run was entered (history)
    cancelMidLen,   \* Len(runLog) at the first Cancel called in this Run before
                    \* the last step's run returned, -1 if none (history)
    prevMarkers     \* the markers the previous context held when this Run
                    \* was entered (history)

progVars == <<config, driver, prepRet, runner, pc, state, idx, executed,
              runLog, cleanupLog, outdir, result, runs>>
histVars == <<rawIn, verifyIn, haltStep, consecCancels, cancelPending, preCancelled,
              cancelInRun, cancelMidLen, prevMarkers>>
vars == <<config, driver, prepRet, rawIn, verifyIn, runner, pc, state, idx, executed,
          runLog, cleanupLog, outdir, result, runs, haltStep, consecCancels,
          cancelPending, preCancelled, cancelInRun, cancelMidLen, prevMarkers>>

(***************************************************************************)
(* Bounds of the model.                                                    *)
(***************************************************************************)
MaxRuns == 2
MaxConsecCancels == 2

(***************************************************************************)
(* Program constants.                                                      *)
(***************************************************************************)
DefaultHTTPPortMin == 8000
DefaultHTTPPortMax == 9000
DefaultVNCPortMin == 5900
DefaultVNCPortMax == 6000

\* A default of five seconds instead of five minutes.
DefaultShutdownTimeoutSeconds == <<"5", "s">>

\* "5m" and "20m", the defaults Prepare writes into the raw fields.
DefaultShutdownTimeout == <<"5", "m">>
DefaultSSHWaitTimeout == <<"2", "0", "m">>

(***************************************************************************)
(* time.ParseDuration, restricted to the grammar [-+]?([0-9]+[a-z]+)+      *)
(* with the units h, m and s (no fractions, no sub-second units).          *)
(***************************************************************************)
Digits == {"0", "1", "2", "3", "4", "5", "6", "7", "8", "9"}

DigitVal(c) ==
    CASE c = "0" -> 0 [] c = "1" -> 1 [] c = "2" -> 2 [] c = "3" -> 3
      [] c = "4" -> 4 [] c = "5" -> 5 [] c = "6" -> 6 [] c = "7" -> 7
      [] c = "8" -> 8 [] c = "9" -> 9

\* unitMap: seconds per unit, 0 for an unknown unit.
UnitSeconds(u) ==
    IF u = <<"s">> THEN 1
    ELSE IF u = <<"m">> THEN 60
    ELSE IF u = <<"h">> THEN 3600
    ELSE 0

\* leadingInt: the length of the longest prefix of digits of s from position i.
RECURSIVE LeadingDigits(_, _)
LeadingDigits(s, i) ==
    IF i <= Len(s) /\ s[i] \in Digits THEN 1 + LeadingDigits(s, i + 1) ELSE 0

RECURSIVE DigitsValue(_, _, _)
DigitsValue(s, i, n) ==
    IF n = 0 THEN 0
    ELSE DigitsValue(s, i, n - 1) * 10 + DigitVal(s[i + n - 1])

\* The unit: the characters up to the next digit or "."
RECURSIVE UnitLen(_, _)
UnitLen(s, i) ==
    IF i <= Len(s) /\ s[i] \notin Digits /\ s[i] # "." THEN 1 + UnitLen(s, i + 1) ELSE 0

\* The loop over the (number, unit) groups of s from position i; d is the sum so far.
RECURSIVE ParseGroups(_, _, _)
ParseGroups(s, i, d) ==
    IF i > Len(s) THEN [ok |-> TRUE, d |-> d]
    ELSE LET nd == LeadingDigits(s, i)
             nu == UnitLen(s, i + nd)
             u  == SubSeq(s, i + nd, i + nd + nu - 1)
         IN  IF nd = 0 THEN [ok |-> FALSE, d |-> 0]              \* invalid duration
             ELSE IF nu = 0 THEN [ok |-> FALSE, d |-> 0]         \* missing unit
             ELSE IF UnitSeconds(u) = 0 THEN [ok |-> FALSE, d |-> 0]  \* unknown unit
             ELSE ParseGroups(s, i + nd + nu, d + DigitsValue(s, i, nd) * UnitSeconds(u))

ParseDuration(s) ==
    LET signed == Len(s) > 0 /\ s[1] \in {"-", "+"}
        neg    == Len(s) > 0 /\ s[1] = "-"
        body   == IF signed THEN Tail(s) ELSE s
        r      == ParseGroups(body, 1, 0)
    IN  IF body = <<"0">> THEN [ok |-> TRUE, d |-> 0]
        ELSE IF body = <<>> THEN [ok |-> FALSE, d |-> 0]
        ELSE IF r.ok /\ neg THEN [ok |-> TRUE, d |-> 0 - r.d]
        ELSE r

(***************************************************************************)
(* Builder.newDriver: the Fusion 5 driver, if its Verify succeeds.         *)
(***************************************************************************)
\* A newDriver that hands back the driver even when its Verify failed.
newDriverKeepsOnError(verifyOk) == [driver |-> "fusion5", err |-> ~verifyOk]

newDriver(verifyOk) ==
    IF verifyOk THEN [driver |-> "fusion5", err |-> FALSE]
    ELSE [driver |-> "nil", err |-> TRUE]

(***************************************************************************)
(* Builder.Prepare.                                                        *)
(***************************************************************************)
\* The zero value of the config struct.
ZeroConfig ==
    [DiskName |-> "", GuestOSType |-> "", ISOUrl |-> "", VMName |-> "",
     OutputDir |-> "", HTTPPortMin |-> 0, HTTPPortMax |-> 0,
     BootWait |-> 0, ShutdownTimeout |-> 0, SSHUser |-> "", SSHWaitTimeout |-> 0,
     VNCPortMin |-> 0, VNCPortMax |-> 0,
     RawBootWait |-> <<>>, RawShutdownTimeout |-> <<>>, RawSSHWaitTimeout |-> <<>>]

\* mapstructure.Decode of a raw configuration that decodes: every tagged field
\* takes the raw option's value; the untagged fields (the durations) keep theirs.
Decode(raw, c) ==
    [c EXCEPT !.DiskName = raw.vmdk_name, !.GuestOSType = raw.guest_os_type,
              !.ISOUrl = raw.iso_url, !.VMName = raw.vm_name,
              !.OutputDir = raw.output_directory,
              !.HTTPPortMin = raw.http_port_min, !.HTTPPortMax = raw.http_port_max,
              !.SSHUser = raw.ssh_username,
              !.VNCPortMin = raw.vnc_port_min, !.VNCPortMax = raw.vnc_port_max,
              !.RawBootWait = raw.boot_wait,
              !.RawShutdownTimeout = raw.shutdown_timeout,
              !.RawSSHWaitTimeout = raw.ssh_wait_timeout]

\* Lines 55-85: the defaults of the options left empty or zero.
\* Lines 55-85 without the defaults of the four port bounds.
ApplyDefaultsNoPorts(c) ==
    [c EXCEPT !.DiskName = IF c.DiskName = "" THEN "disk" ELSE c.DiskName,
              !.GuestOSType = IF c.GuestOSType = "" THEN "other" ELSE c.GuestOSType,
              !.VMName = IF c.VMName = "" THEN "packer" ELSE c.VMName,
              !.OutputDir = IF c.OutputDir = "" THEN "vmware" ELSE c.OutputDir]

ApplyDefaults(c) ==
    [c EXCEPT !.DiskName = IF c.DiskName = "" THEN "disk" ELSE c.DiskName,
              !.GuestOSType = IF c.GuestOSType = "" THEN "other" ELSE c.GuestOSType,
              !.VMName = IF c.VMName = "" THEN "packer" ELSE c.VMName,
              !.HTTPPortMin = IF c.HTTPPortMin = 0 THEN DefaultHTTPPortMin ELSE c.HTTPPortMin,
              !.HTTPPortMax = IF c.HTTPPortMax = 0 THEN DefaultHTTPPortMax ELSE c.HTTPPortMax,
              !.VNCPortMin = IF c.VNCPortMin = 0 THEN DefaultVNCPortMin ELSE c.VNCPortMin,
              !.VNCPortMax = IF c.VNCPortMax = 0 THEN DefaultVNCPortMax ELSE c.VNCPortMax,
              !.OutputDir = IF c.OutputDir = "" THEN "vmware" ELSE c.OutputDir]

\* Lines 102-125: the raw durations are defaulted and parsed.  A failed parse
\* assigns the zero duration; an empty boot_wait leaves BootWait as it is.
ResolveDurations(c) ==
    LET rst == IF c.RawShutdownTimeout = <<>> THEN DefaultShutdownTimeout
               ELSE c.RawShutdownTimeout
        rsw == IF c.RawSSHWaitTimeout = <<>> THEN DefaultSSHWaitTimeout
               ELSE c.RawSSHWaitTimeout
    IN  [c EXCEPT !.BootWait = IF c.RawBootWait # <<>>
                               THEN ParseDuration(c.RawBootWait).d ELSE c.BootWait,
                  !.RawShutdownTimeout = rst,
                  !.ShutdownTimeout = ParseDuration(rst).d,
                  !.RawSSHWaitTimeout = rsw,
                  !.SSHWaitTimeout = ParseDuration(rsw).d]

\* One entry of errs if the condition holds.
ErrIf(cond, name) == IF cond THEN <<name>> ELSE <<>>

\* Prepare without the check of the VNC port range.
PrepareErrsNoVNC(c, verifyOk) ==
    ErrIf(c.HTTPPortMin > c.HTTPPortMax, "http_port_min must be less than http_port_max")
    \o ErrIf(c.ISOUrl = "", "An iso_url must be specified.")
    \o ErrIf(c.SSHUser = "", "An ssh_username must be specified.")
    \o ErrIf(c.RawBootWait # <<>> /\ ~ParseDuration(c.RawBootWait).ok,
             "Failed parsing boot_wait")
    \o ErrIf(~ParseDuration(c.RawShutdownTimeout).ok, "Failed parsing shutdown_timeout")
    \o ErrIf(~ParseDuration(c.RawSSHWaitTimeout).ok, "Failed parsing ssh_wait_timeout")
    \o ErrIf(newDriver(verifyOk).err, "Failed creating VMware driver")

\* Lines 87-134: the errors accumulated, in the order the code appends them.
\* c is the configuration after the defaults and the durations are resolved.
PrepareErrs(c, verifyOk) ==
    ErrIf(c.HTTPPortMin > c.HTTPPortMax, "http_port_min must be less than http_port_max")
    \o ErrIf(c.ISOUrl = "", "An iso_url must be specified.")
    \o ErrIf(c.SSHUser = "", "An ssh_username must be specified.")
    \o ErrIf(c.RawBootWait # <<>> /\ ~ParseDuration(c.RawBootWait).ok,
             "Failed parsing boot_wait")
    \o ErrIf(~ParseDuration(c.RawShutdownTimeout).ok, "Failed parsing shutdown_timeout")
    \o ErrIf(~ParseDuration(c.RawSSHWaitTimeout).ok, "Failed parsing ssh_wait_timeout")
    \o ErrIf(c.VNCPortMin > c.VNCPortMax, "vnc_port_min must be less than vnc_port_max")
    \o ErrIf(newDriver(verifyOk).err, "Failed creating VMware driver")

\* Prepare returning at the first error it finds.
PrepareReturnFailFast(raw, c, verifyOk) ==
    IF ~raw.decodes THEN [kind |-> "decode", errs |-> <<"decode">>]
    ELSE IF Len(PrepareErrs(c, verifyOk)) > 0
         THEN [kind |-> "multi", errs |-> <<Head(PrepareErrs(c, verifyOk))>>]
         ELSE [kind |-> "nil", errs |-> <<>>]

\* Lines 50-53: a decode error is returned at once, alone.
\* Lines 136-140: otherwise a MultiError of the accumulated errors, or nil.
PrepareReturn(raw, c, verifyOk) ==
    IF ~raw.decodes THEN [kind |-> "decode", errs |-> <<"decode">>]
    ELSE IF Len(PrepareErrs(c, verifyOk)) > 0
         THEN [kind |-> "multi", errs |-> PrepareErrs(c, verifyOk)]
         ELSE [kind |-> "nil", errs |-> <<>>]

\* The configuration Prepare leaves in the Builder.
PrepareConfig(raw, c) ==
    IF ~raw.decodes THEN c
    ELSE ResolveDurations(ApplyDefaults(Decode(raw, c)))

(***************************************************************************)
(* Builder.Run: the fixed step sequence and the state bag.                 *)
(***************************************************************************)
\* The step order with the boot command typed before the VNC port is configured.
StepsBootBeforeVNC ==
    <<"stepPrepareOutputDir", "stepCreateDisk", "stepCreateVMX", "stepHTTPServer",
      "stepTypeBootCommand", "stepRun", "stepConfigureVNC", "stepWaitForSSH",
      "stepProvision", "stepShutdown">>

\* Lines 147-158.
Steps ==
    <<"stepPrepareOutputDir", "stepCreateDisk", "stepCreateVMX", "stepHTTPServer",
      "stepConfigureVNC", "stepRun", "stepTypeBootCommand", "stepWaitForSSH",
      "stepProvision", "stepShutdown">>

NumSteps == Len(Steps)

\* Lines 160-165: the keys of a new state bag.
NewStateBag == {"config", "driver", "hook", "ui"}

\* A state bag kept from one Run to the next.
NewStateReused(old) == old \cup NewStateBag

\* Line 161: every Run makes a new map, whatever the bag of an earlier Run held.
NewState(old) == NewStateBag

\* multistep.StateCancelled and multistep.StateHalted.
StateCancelled == "cancelled"
StateHalted == "halted"

(***************************************************************************)
(* The output directory: the entries that may appear under it, as paths    *)
(* relative to it.  "b" is a directory, "a" and "b/c" are regular files.   *)
(***************************************************************************)
Names == <<"a", "b", "c">>      \* in lexical order, the order of filepath.Walk
Entries == {<<"a">>, <<"b">>, <<"b", "c">>}
IsDir(q) == q = <<"b">>
Trees == {t \in SUBSET Entries : <<"b", "c">> \in t => <<"b">> \in t}

\* filepath.Walk below the entry p: the entries in lexical order, a directory
\* before its contents.
RECURSIVE WalkNames(_, _, _)
WalkNames(p, tree, i) ==
    IF i > Len(Names) THEN <<>>
    ELSE LET q == Append(p, Names[i])
         IN  (IF q \in tree THEN <<q>> \o WalkNames(q, tree, 1) ELSE <<>>)
             \o WalkNames(p, tree, i + 1)

\* The paths handed to the walk function of filepath.Walk(root, visit): the
\* root itself first, then everything below it.
WalkPaths(root, tree) ==
    <<(<<root>>)>> \o [i \in 1..Len(WalkNames(<<>>, tree, 1)) |->
                          <<root>> \o WalkNames(<<>>, tree, 1)[i]]

\* Lines 181-185: visit appends every path it is handed.
Visit(files, path) == Append(files, path)

RECURSIVE VisitAll(_, _, _)
VisitAll(files, paths, i) ==
    IF i > Len(paths) THEN files
    ELSE VisitAll(Visit(files, paths[i]), paths, i + 1)

NilResult == [kind |-> "nil", dir |-> "", files |-> <<>>, uiError |-> FALSE]
NoResult == [kind |-> "none", dir |-> "", files |-> <<>>, uiError |-> FALSE]

\* Run without the test of the halted marker.
RunResultNoHaltCheck(st, c, tree, walkErr) ==
    IF StateCancelled \in st THEN NilResult
    ELSE IF walkErr THEN [NilResult EXCEPT !.uiError = TRUE]
    ELSE [kind |-> "artifact", dir |-> c.OutputDir,
          files |-> VisitAll(<<>>, WalkPaths(c.OutputDir, tree), 1),
          uiError |-> FALSE]

\* A Run that empties the output directory of a cancelled or halted build.
TreeAfterRunRemoving(st, tree) ==
    IF st \cap {StateCancelled, StateHalted} # {} THEN {} ELSE tree

\* Lines 171-192: the output directory after Run has inspected the markers
\* and walked it; Run only reads it.
TreeAfterRun(st, tree) == tree

\* Run giving up on a walk error without telling the user.
RunResultSilentWalkError(st, c, tree, walkErr) ==
    IF StateCancelled \in st THEN NilResult
    ELSE IF StateHalted \in st THEN NilResult
    ELSE IF walkErr THEN NilResult
    ELSE [kind |-> "artifact", dir |-> c.OutputDir,
          files |-> VisitAll(<<>>, WalkPaths(c.OutputDir, tree), 1),
          uiError |-> FALSE]

\* Lines 171-192: what Run returns once the runner has returned.
RunResult(st, c, tree, walkErr) ==
    IF StateCancelled \in st THEN NilResult
    ELSE IF StateHalted \in st THEN NilResult
    ELSE IF walkErr THEN [NilResult EXCEPT !.uiError = TRUE]
    ELSE [kind |-> "artifact", dir |-> c.OutputDir,
          files |-> VisitAll(<<>>, WalkPaths(c.OutputDir, tree), 1),
          uiError |-> FALSE]

(***************************************************************************)
(* The step runner (multistep.BasicRunner) and the steps.                  *)
(***************************************************************************)
\* Runner.Cancel: marks the context cancelled while the runner is in use.
RunnerCancel(live, st) == IF live THEN st \cup {StateCancelled} ELSE st

\* Cancel marking the context whether or not the Builder has a runner in use.
BuilderCancelNoNilCheck(r, live, st) == RunnerCancel(TRUE, st)

\* Cancel whose second call escalates: it marks the context halted as well.
BuilderCancelEscalate(r, live, st) ==
    IF r # 0 /\ live
    THEN (IF StateCancelled \in st THEN st \cup {StateHalted} ELSE st \cup {StateCancelled})
    ELSE st

\* Cancel that toggles the marker.
BuilderCancelToggle(r, live, st) ==
    IF r # 0 /\ live
    THEN (IF StateCancelled \in st THEN st \ {StateCancelled} ELSE st \cup {StateCancelled})
    ELSE st

\* Lines 195-200: Cancel forwards to the runner, if there is one.
BuilderCancel(r, live, st) == IF r # 0 THEN RunnerCancel(live, st) ELSE st

\* The runner that b.runner names is the one of the current Run, and that Run
\* has not got it back yet.
RunnerLive == runner = runs /\ pc \in {"stored", "loop", "inrun", "cleanup"}

\* The keys the run of the step named n writes into the state bag.
WritesOf(n) ==
    CASE n = "stepCreateVMX" -> {"vmx_path"}
      [] n = "stepHTTPServer" -> {"http_port"}
      [] n = "stepConfigureVNC" -> {"vnc_port"}
      [] n = "stepWaitForSSH" -> {"communicator"}
      [] OTHER -> {}

\* The keys the run of the step named n reads from the state bag.
ReadsOf(n) ==
    CASE n = "stepPrepareOutputDir" -> {"config", "ui"}
      [] n = "stepCreateDisk" -> {"config", "driver", "ui"}
      [] n = "stepCreateVMX" -> {"config", "ui"}
      [] n = "stepHTTPServer" -> {"config", "ui"}
      [] n = "stepConfigureVNC" -> {"config", "ui"}
      [] n = "stepRun" -> {"driver", "ui", "vmx_path"}
      [] n = "stepTypeBootCommand" -> {"config", "ui", "http_port", "vnc_port"}
      [] n = "stepWaitForSSH" -> {"config", "ui"}
      [] n = "stepProvision" -> {"communicator", "hook", "ui"}
      [] n = "stepShutdown" -> {"communicator", "config", "driver", "ui", "vmx_path"}
      [] OTHER -> {}

\* The keys the k-th step's run writes and reads.
StepWrites(k) == WritesOf(Steps[k])
StepReads(k) == ReadsOf(Steps[k])

\* The output directory after step k's run: the first step leaves it empty,
\* the disk, the descriptor and the running VM add entries to it.
StepTrees(k, tree, halt) ==
    IF k = 1 THEN (IF halt THEN {tree} ELSE {{}})
    ELSE IF k \in {2, 3, 6} THEN {t \in Trees : tree \subseteq t}
    ELSE {tree}

\* A cleanup of stepPrepareOutputDir that removes the output directory's
\* contents when the build was cancelled or halted.
CleanupTreeRemoving(k, tree, st) ==
    IF k = 1 /\ st \cap {StateCancelled, StateHalted} # {} THEN {} ELSE tree

\* The output directory after the cleanup of step k: no cleanup removes
\* anything.
CleanupTree(k, tree, st) == tree

\* A loop test that does not look at the halted marker.
StopAdvancingIgnoreHalt(st, i) == i > NumSteps \/ StateCancelled \in st

\* The runner's loop test: stop advancing.
StopAdvancing(st, i) == i > NumSteps \/ StateCancelled \in st \/ StateHalted \in st

Reverse(s) == [i \in 1..Len(s) |-> s[Len(s) + 1 - i]]
UpTo(n) == [i \in 1..n |-> i]
Min(a, b) == IF a < b THEN a ELSE b

(***************************************************************************)
(* The inputs.                                                             *)
(***************************************************************************)
RawDurations ==
    {<<>>, <<"1", "0", "s">>, <<"-", "5", "m">>, <<"1", "h", "3", "0", "m">>, <<"5">>}
HTTPPorts == {0, 8500, 9500}
VNCPorts == {0, 5950, 6500}

\* The raw configurations Prepare is checked on.
AllRaws ==
    [decodes : BOOLEAN, vmdk_name : {""}, guest_os_type : {""},
     iso_url : {"", "http://iso"}, vm_name : {""}, output_directory : {""},
     ssh_username : {"", "user"},
     http_port_min : HTTPPorts, http_port_max : HTTPPorts,
     vnc_port_min : VNCPorts, vnc_port_max : VNCPorts,
     boot_wait : RawDurations, shutdown_timeout : RawDurations,
     ssh_wait_timeout : {<<>>, <<"-", "5", "m">>, <<"5">>}]

GoodRaw ==
    [decodes |-> TRUE, vmdk_name |-> "", guest_os_type |-> "",
     iso_url |-> "http://iso", vm_name |-> "myvm", output_directory |-> "d",
     ssh_username |-> "user",
     http_port_min |-> 0, http_port_max |-> 0, vnc_port_min |-> 0, vnc_port_max |-> 0,
     boot_wait |-> <<>>, shutdown_timeout |-> <<>>, ssh_wait_timeout |-> <<>>]

\* The raw configurations the builds are checked on.
LifecycleRaws ==
    {GoodRaw, [GoodRaw EXCEPT !.decodes = FALSE], [GoodRaw EXCEPT !.iso_url = ""],
     [GoodRaw EXCEPT !.http_port_min = 8500, !.http_port_max = 9500,
                     !.vnc_port_min = 5950, !.vnc_port_max = 6500],
     [GoodRaw EXCEPT !.vnc_port_min = 6500]}

NoRaw == [decodes |-> FALSE]

(***************************************************************************)
(* The state after construction.                                           *)
(***************************************************************************)
Init ==
    /\ config = ZeroConfig
    /\ driver = "nil"
    /\ prepRet = [kind |-> "none", errs |-> <<>>]
    /\ rawIn = NoRaw
    /\ verifyIn = FALSE
    /\ runner = 0
    /\ pc = "idle"
    /\ state = {}
    /\ idx = 1
    /\ executed = <<>>
    /\ runLog = <<>>
    /\ cleanupLog = <<>>
    /\ outdir = {}
    /\ result = NoResult
    /\ runs = 0
    /\ haltStep = 0
    /\ consecCancels = 0
    /\ cancelPending = FALSE
    /\ preCancelled = FALSE
    /\ cancelInRun = FALSE
    /\ cancelMidLen = -1
    /\ prevMarkers = {}

runnerVars == <<idx, executed, runLog, cleanupLog, haltStep>>
builderVars == <<config, driver, prepRet, rawIn, verifyIn>>

(***************************************************************************)
(* The operations.                                                         *)
(***************************************************************************)
\* Builder.Prepare(raw), called once on a new Builder, before any Run.
CanPrepare == pc = "idle" /\ runs = 0 /\ prepRet.kind = "none"

Prepare(raw, verifyOk) ==
    /\ LET c == PrepareConfig(raw, config)
       IN  /\ config' = c
           /\ prepRet' = PrepareReturn(raw, c, verifyOk)
    /\ driver' = IF raw.decodes THEN newDriver(verifyOk).driver ELSE driver
    /\ rawIn' = raw
    /\ verifyIn' = verifyOk
    /\ consecCancels' = 0
    /\ UNCHANGED <<runner, pc, state, outdir, result, runs, runnerVars,
                   cancelPending, preCancelled, cancelInRun,
                   cancelMidLen, prevMarkers>>

PrepareAny == CanPrepare /\ \E raw \in AllRaws, verifyOk \in BOOLEAN : Prepare(raw, verifyOk)

PrepareLifecycle == CanPrepare /\ \E raw \in LifecycleRaws, verifyOk \in BOOLEAN : Prepare(raw, verifyOk)

\* A Run that refuses to start unless Prepare has returned nil.
CanRunIfPrepared == pc = "idle" /\ prepRet.kind = "nil"

\* Line 143: Run tests nothing before it builds its steps; the model has one
\* thread calling Run, so a Run is entered only when none is in progress.
CanRun == pc = "idle"

\* Builder.Run, lines 143-165: the steps and a new state bag are built.
RunEnter ==
    /\ CanRun /\ runs < MaxRuns
    /\ runs' = runs + 1
    /\ state' = NewState(state)
    /\ idx' = 1 /\ executed' = <<>> /\ runLog' = <<>> /\ cleanupLog' = <<>>
    /\ haltStep' = 0
    /\ result' = NoResult
    /\ pc' = "built"
    /\ preCancelled' = cancelPending
    /\ cancelPending' = FALSE
    /\ cancelInRun' = FALSE
    /\ cancelMidLen' = -1
    /\ prevMarkers' = state \cap {StateCancelled, StateHalted}
    /\ consecCancels' = 0
    /\ UNCHANGED <<builderVars, runner, outdir>>

\* Line 168: the new runner is stored in the Builder.
RunStoreRunner ==
    /\ pc = "built"
    /\ runner' = runs
    /\ pc' = "stored"
    /\ consecCancels' = 0
    /\ UNCHANGED <<builderVars, state, outdir, result, runs, runnerVars,
                   cancelPending, preCancelled, cancelInRun,
                   cancelMidLen, prevMarkers>>

\* Line 169: the runner's Run is entered.
RunnerStart ==
    /\ pc = "stored"
    /\ pc' = "loop"
    /\ consecCancels' = 0
    /\ UNCHANGED <<builderVars, runner, state, outdir, result, runs, runnerVars,
                   cancelPending, preCancelled, cancelInRun,
                   cancelMidLen, prevMarkers>>

\* The runner starts the next step's run, unless it has to stop advancing.
StepStart ==
    /\ pc = "loop" /\ ~StopAdvancing(state, idx)
    /\ runLog' = Append(runLog, idx)
    /\ pc' = "inrun"
    /\ consecCancels' = 0
    /\ UNCHANGED <<builderVars, runner, state, outdir, result, runs, idx, executed,
                   cleanupLog, haltStep, cancelPending, preCancelled, cancelInRun,
                   cancelMidLen, prevMarkers>>

\* The step's run returns: it continues or halts.  The runner pushes the step
\* and marks the context halted if the step said so.
StepFinish ==
    /\ pc = "inrun"
    /\ \E halt \in BOOLEAN :
         /\ state' = IF halt THEN state \cup {StateHalted}
                     ELSE state \cup StepWrites(idx)
         /\ haltStep' = IF halt THEN idx ELSE haltStep
         /\ outdir' \in StepTrees(idx, outdir, halt)
    /\ executed' = Append(executed, idx)
    /\ idx' = idx + 1
    /\ pc' = "loop"
    /\ consecCancels' = 0
    /\ UNCHANGED <<builderVars, runner, result, runs, runLog, cleanupLog,
                   cancelPending, preCancelled, cancelInRun,
                   cancelMidLen, prevMarkers>>

\* The runner leaves its loop.
LoopExit ==
    /\ pc = "loop" /\ StopAdvancing(state, idx)
    /\ pc' = "cleanup"
    /\ consecCancels' = 0
    /\ UNCHANGED <<builderVars, runner, state, outdir, result, runs, runnerVars,
                   cancelPending, preCancelled, cancelInRun,
                   cancelMidLen, prevMarkers>>

\* The runner pops the executed stack and invokes the step's cleanup.
CleanupStep ==
    /\ pc = "cleanup" /\ executed # <<>>
    /\ cleanupLog' = Append(cleanupLog, executed[Len(executed)])
    /\ executed' = SubSeq(executed, 1, Len(executed) - 1)
    /\ outdir' = CleanupTree(executed[Len(executed)], outdir, state)
    /\ consecCancels' = 0
    /\ UNCHANGED <<builderVars, runner, pc, state, result, runs, idx, runLog,
                   haltStep, cancelPending, preCancelled, cancelInRun,
                   cancelMidLen, prevMarkers>>

\* The runner's Run returns to Builder.Run.
RunnerReturn ==
    /\ pc = "cleanup" /\ executed = <<>>
    /\ pc' = "check"
    /\ consecCancels' = 0
    /\ UNCHANGED <<builderVars, runner, state, outdir, result, runs, runnerVars,
                   cancelPending, preCancelled, cancelInRun,
                   cancelMidLen, prevMarkers>>

\* A Run that never returns once the context is marked.
RunReturnOnlyIfClean ==
    /\ pc = "check" /\ state \cap {StateCancelled, StateHalted} = {}
    /\ \E walkErr \in BOOLEAN : result' = RunResult(state, config, outdir, walkErr)
    /\ outdir' = TreeAfterRun(state, outdir)
    /\ pc' = "idle"
    /\ consecCancels' = 0
    /\ UNCHANGED <<builderVars, runner, state, runs, runnerVars,
                   cancelPending, preCancelled, cancelInRun,
                   cancelMidLen, prevMarkers>>

\* Builder.Run, lines 171-192: the markers are inspected, the output directory
\* is walked (the walk may fail) and Run returns.
RunReturn ==
    /\ pc = "check"
    /\ \E walkErr \in BOOLEAN : result' = RunResult(state, config, outdir, walkErr)
    /\ outdir' = TreeAfterRun(state, outdir)
    /\ pc' = "idle"
    /\ consecCancels' = 0
    /\ UNCHANGED <<builderVars, runner, state, runs, runnerVars,
                   cancelPending, preCancelled, cancelInRun,
                   cancelMidLen, prevMarkers>>

\* Run has been entered and the last step's run has not returned.
BeforeLastRunReturned ==
    \/ pc \in {"built", "stored", "inrun"}
    \/ pc = "loop" /\ idx <= NumSteps

\* Builder.Cancel, from any thread, at any time.
Cancel ==
    /\ state' = BuilderCancel(runner, RunnerLive, state)
    /\ consecCancels' = Min(consecCancels + 1, MaxConsecCancels)
    /\ cancelPending' = IF pc = "idle" THEN TRUE ELSE cancelPending
    /\ cancelInRun' = IF pc # "idle" THEN TRUE ELSE cancelInRun
    /\ cancelMidLen' = IF cancelMidLen = -1 /\ BeforeLastRunReturned
                       THEN Len(runLog) ELSE cancelMidLen
    /\ UNCHANGED <<builderVars, runner, pc, outdir, result, runs, runnerVars,
                   preCancelled, prevMarkers>>

Next ==
    \/ PrepareLifecycle
    \/ RunEnter
    \/ RunStoreRunner
    \/ RunnerStart
    \/ StepStart
    \/ StepFinish
    \/ LoopExit
    \/ CleanupStep
    \/ RunnerReturn
    \/ RunReturn
    \/ Cancel

\* The builds: Prepare, Run and Cancel on one Builder.
Spec == Init /\ [][Next]_vars

\* The thread that called Run: every step of it from line 168 to the return.
RunThread ==
    \/ RunStoreRunner
    \/ RunnerStart
    \/ StepStart
    \/ StepFinish
    \/ LoopExit
    \/ CleanupStep
    \/ RunnerReturn
    \/ RunReturn

PrepareGood == CanPrepare /\ \E verifyOk \in BOOLEAN : Prepare(GoodRaw, verifyOk)

NextFair ==
    \/ PrepareGood
    \/ RunEnter
    \/ RunThread
    \/ Cancel

\* The builds of one well-configured Builder, with the thread inside Run
\* always going on: the run and the cleanup of a step return (every wait of
\* a step is bounded by a timeout, whose expiry is the step's halt outcome),
\* and nothing in Run waits for another thread.
SpecFair == Init /\ [][NextFair]_vars /\ WF_vars(RunThread)

\* Prepare alone, on every raw configuration of AllRaws.
NextPrepare == PrepareAny

SpecPrepare == Init /\ [][NextPrepare]_vars

(***************************************************************************)
(* The properties.                                                         *)
(***************************************************************************)
Range(s) == {s[i] : i \in 1..Len(s)}
HasErr(name) == name \in Range(prepRet.errs)
ErrHTTP == "http_port_min must be less than http_port_max"
ErrVNC == "vnc_port_min must be less than vnc_port_max"

C2_HaltCleanup ==
    /\ (pc \in {"loop", "inrun"} => cleanupLog = <<>>)
    /\ (haltStep # 0 =>
          /\ runLog = UpTo(haltStep)
          /\ \E n \in 0..haltStep :
                cleanupLog = SubSeq(Reverse(UpTo(haltStep)), 1, n)
          /\ (pc \in {"check", "idle"} => cleanupLog = Reverse(UpTo(haltStep))))

\* Step 3 halted and the runner has returned after cleaning up 3, 2, 1.
C2_Witness ==
    haltStep = 3 /\ pc = "check" /\ cleanupLog = <<3, 2, 1>>

\* C3: Run returns an artifact only if the context holds neither marker when
\* the runner returns; with either marker present Run returns nil.
C3_ArtifactOnlyIfClean ==
    /\ (result.kind = "artifact" =>
          StateCancelled \notin state /\ StateHalted \notin state)
    /\ (pc = "idle" /\ runs > 0 /\ (StateCancelled \in state \/ StateHalted \in state)
          => result.kind = "nil")

\* Run has returned nil from a halted, not cancelled, pipeline.
C3_Witness ==
    /\ pc = "idle" /\ result.kind = "nil"
    /\ StateHalted \in state /\ StateCancelled \notin state

\* C4 as stated: with the output directory holding exactly a and b/c, the
\* artifact lists exactly d/a and d/b/c, and no error is reported.
C4_ArtifactListsOnlyFiles ==
    (result.kind = "artifact" /\ outdir = {<<"a">>, <<"b">>, <<"b", "c">>}) =>
        /\ Range(result.files) = {<<result.dir, "a">>, <<result.dir, "b", "c">>}
        /\ ~result.uiError

\* C5 as stated: the port ranges are compared as given.
C5_GivenPortsInverted ==
    prepRet.kind # "none" =>
        /\ (rawIn.http_port_min > rawIn.http_port_max => HasErr(ErrHTTP))
        /\ (rawIn.vnc_port_min > rawIn.vnc_port_max => HasErr(ErrVNC))

\* C5, amended: for every raw configuration that decodes, if after a bound
\* given as 0 is replaced by its default the HTTP (VNC) minimum is greater than
\* the maximum, the error Prepare returns has the entry naming that range.
C5_DefaultedPortsInverted ==
    (prepRet.kind # "none" /\ rawIn.decodes) =>
        LET hmin == IF rawIn.http_port_min = 0 THEN 8000 ELSE rawIn.http_port_min
            hmax == IF rawIn.http_port_max = 0 THEN 9000 ELSE rawIn.http_port_max
            vmin == IF rawIn.vnc_port_min = 0 THEN 5900 ELSE rawIn.vnc_port_min
            vmax == IF rawIn.vnc_port_max = 0 THEN 6000 ELSE rawIn.vnc_port_max
        IN  /\ (hmin > hmax => prepRet.kind = "multi" /\ HasErr(ErrHTTP))
            /\ (vmin > vmax => prepRet.kind = "multi" /\ HasErr(ErrVNC))

\* Both ranges are inverted only after the defaults, and both are reported.
C5_Witness ==
    /\ prepRet.kind = "multi"
    /\ rawIn.http_port_min = 9500 /\ rawIn.http_port_max = 0
    /\ rawIn.vnc_port_min = 6500 /\ rawIn.vnc_port_max = 0
    /\ HasErr(ErrHTTP) /\ HasErr(ErrVNC)

\* The violations of the raw configuration given to Prepare, one name each.
ViolationsGiven ==
    LET hmin == IF rawIn.http_port_min = 0 THEN 8000 ELSE rawIn.http_port_min
        hmax == IF rawIn.http_port_max = 0 THEN 9000 ELSE rawIn.http_port_max
        vmin == IF rawIn.vnc_port_min = 0 THEN 5900 ELSE rawIn.vnc_port_min
        vmax == IF rawIn.vnc_port_max = 0 THEN 6000 ELSE rawIn.vnc_port_max
        bad(d) == d # <<>> /\ ~ParseDuration(d).ok
    IN  (IF rawIn.decodes THEN {} ELSE {"decode"})
        \cup (IF rawIn.iso_url = "" THEN {"An iso_url must be specified."} ELSE {})
        \cup (IF rawIn.ssh_username = "" THEN {"An ssh_username must be specified."} ELSE {})
        \cup (IF hmin > hmax THEN {ErrHTTP} ELSE {})
        \cup (IF vmin > vmax THEN {ErrVNC} ELSE {})
        \cup (IF bad(rawIn.boot_wait) THEN {"Failed parsing boot_wait"} ELSE {})
        \cup (IF bad(rawIn.shutdown_timeout) THEN {"Failed parsing shutdown_timeout"} ELSE {})
        \cup (IF bad(rawIn.ssh_wait_timeout) THEN {"Failed parsing ssh_wait_timeout"} ELSE {})
        \cup (IF verifyIn THEN {} ELSE {"Failed creating VMware driver"})

\* C6 as stated: for every raw configuration the error has one entry for each
\* violation present, the undecodable option included.
C6_EveryViolationReported ==
    prepRet.kind # "none" =>
        /\ Range(prepRet.errs) = ViolationsGiven
        /\ Len(prepRet.errs) = Cardinality(ViolationsGiven)

\* C6, amended: for every raw configuration that decodes, the error has exactly
\* one entry for each violation present; a raw configuration that does not
\* decode yields the decode error alone, whatever else is wrong with it.
C6_ViolationsOfDecodedReported ==
    prepRet.kind # "none" =>
        IF rawIn.decodes
        THEN /\ Range(prepRet.errs) = ViolationsGiven
             /\ Len(prepRet.errs) = Cardinality(ViolationsGiven)
             /\ (prepRet.kind = "nil") = (ViolationsGiven = {})
        ELSE prepRet = [kind |-> "decode", errs |-> <<"decode">>]

\* All eight violations of a decoded configuration are present and reported.
C6_Witness ==
    prepRet.kind = "multi" /\ rawIn.decodes /\ Len(prepRet.errs) = 8

\* C7 as stated: after a successful Prepare no resolved duration is negative.
C7_DurationsNonNegative ==
    prepRet.kind = "nil" =>
        /\ config.BootWait >= 0
        /\ config.ShutdownTimeout >= 0
        /\ config.SSHWaitTimeout >= 0

\* C8 as stated: the defaults of the durations are resolved whatever else the
\* raw configuration holds.
C8_DurationDefaultsAlways ==
    prepRet.kind # "none" =>
        /\ (rawIn.shutdown_timeout = <<>> => config.ShutdownTimeout = 300)
        /\ (rawIn.ssh_wait_timeout = <<>> => config.SSHWaitTimeout = 1200)
        /\ (rawIn.boot_wait = <<>> => config.BootWait = 0)

\* C8, amended: whenever the raw configuration decodes, an empty
\* shutdown_timeout resolves to 300 s, an empty ssh_wait_timeout to 1200 s and
\* an empty boot_wait leaves BootWait at 0, whether or not validations fail.
C8_DurationDefaultsOfDecoded ==
    (prepRet.kind # "none" /\ rawIn.decodes) =>
        /\ (rawIn.shutdown_timeout = <<>> => config.ShutdownTimeout = 300)
        /\ (rawIn.ssh_wait_timeout = <<>> => config.SSHWaitTimeout = 1200)
        /\ (rawIn.boot_wait = <<>> => config.BootWait = 0)

\* The defaults are resolved in a Prepare that fails its validations.
C8_Witness ==
    /\ prepRet.kind = "multi" /\ rawIn.decodes
    /\ rawIn.shutdown_timeout = <<>> /\ rawIn.ssh_wait_timeout = <<>>
    /\ rawIn.boot_wait = <<>>
    /\ config.ShutdownTimeout = 300 /\ config.SSHWaitTimeout = 1200

\* C9: a Cancel that directly follows a Cancel changes nothing of the Builder,
\* the runner, the context or the result, at any point of the lifecycle.
C9_SecondCancelChangesNothing ==
    [][(consecCancels >= 1 /\ consecCancels' >= 1) => UNCHANGED progVars]_vars

\* Cancel was called twice in a row while a step's run was in progress.
C9_Witness ==
    consecCancels = 2 /\ pc = "inrun" /\ StateCancelled \in state

\* C10: within one build no step changes a set marker back: a marker that is
\* set stays set until the next Run builds a new state bag.
C10_MarkersMonotonic ==
    [][runs' = runs =>
          /\ (StateCancelled \in state => StateCancelled \in state')
          /\ (StateHalted \in state => StateHalted \in state')]_vars

\* Both markers are set and cleanups have run since.
C10_Witness ==
    /\ pc = "cleanup" /\ cleanupLog # <<>>
    /\ StateCancelled \in state /\ StateHalted \in state

\* C11 as stated: unless Prepare has returned nil, a Run executes no step and
\* produces no artifact.
C11_NoRunAfterFailedPrepare ==
    prepRet.kind # "nil" => (runLog = <<>> /\ result.kind # "artifact")

\* C11, amended: Prepare itself starts nothing (no runner, no context, no step,
\* no result), but Run does not look at what Prepare returned: whatever it was,
\* Run can be entered, and a Run that is not cancelled starts the first step.
C11_RunIgnoresPrepare ==
    /\ (runs = 0 => runner = 0 /\ state = {} /\ runLog = <<>> /\ result = NoResult)
    /\ (pc = "idle" /\ runs < MaxRuns => ENABLED RunEnter)
    /\ (pc = "loop" /\ idx = 1 /\ ~cancelInRun => ~StopAdvancing(state, idx))

\* After a Prepare that returned errors (the driver was found), a Run has run
\* all ten steps and returned an artifact.
C11_Witness ==
    /\ prepRet.kind = "multi" /\ driver = "fusion5"
    /\ Len(runLog) = NumSteps /\ result.kind = "artifact"

\* C12: when a step's run starts and while it is in progress, every key the
\* step reads is in the state bag, put there by Run when it built the bag or
\* by the run of a step earlier in the order that has been invoked.
C12_ProducerBeforeConsumer ==
    pc = "inrun" =>
        \A key \in StepReads(idx) :
            /\ key \in state
            /\ \/ key \in NewStateBag
               \/ \E j \in 1..(idx - 1) : key \in StepWrites(j) /\ j \in Range(runLog)

\* The last step's run is in progress with every key it reads present.
C12_Witness ==
    /\ pc = "inrun" /\ idx = NumSteps
    /\ {"communicator", "vmx_path", "driver", "config"} \subseteq state

\* C13 as stated: after a Cancel called once Run has been entered and before
\* the last step's run has returned, no further step is started, cleanup runs
\* in reverse order for exactly the steps whose run was invoked, the context
\* ends cancelled and Run returns no artifact.
C13_CancelDuringRunStopsRun ==
    cancelMidLen # -1 =>
        /\ Len(runLog) = cancelMidLen
        /\ (pc \in {"check", "idle"} =>
              cleanupLog = Reverse(runLog) /\ StateCancelled \in state)
        /\ (pc = "idle" => result.kind = "nil")

\* C14 as stated: a Run whose context holds neither marker when it returns
\* has returned an Artifact whose directory is the configured OutputDir.
C14_CleanRunReturnsArtifact ==
    (pc = "idle" /\ runs > 0 /\ state \cap {StateCancelled, StateHalted} = {}) =>
        result.kind = "artifact" /\ result.dir = config.OutputDir

\* C14 amended: a Run whose context holds neither marker when it returns has
\* run all ten steps and either returned an Artifact whose directory is the
\* configured OutputDir, or failed to list that directory, reported the
\* error through the ui and returned nil.
C14_CleanRunArtifactOrWalkError ==
    (pc = "idle" /\ runs > 0 /\ state \cap {StateCancelled, StateHalted} = {}) =>
        /\ Len(runLog) = NumSteps
        /\ \/ result.kind = "artifact" /\ result.dir = config.OutputDir
                                       /\ ~result.uiError
           \/ result.kind = "nil" /\ result.uiError

\* All ten steps ran, no marker was set, the walk failed and Run returned nil.
C14_Witness ==
    /\ pc = "idle" /\ runs > 0
    /\ state \cap {StateCancelled, StateHalted} = {}
    /\ Len(runLog) = NumSteps
    /\ result.kind = "nil" /\ result.uiError

\* C15: once Prepare has returned nil, both port ranges of the configuration
\* are ordered and all four bounds are non-zero, in every later state of the
\* Builder, the states of a following Run included.
C15_PortRangesOrdered ==
    prepRet.kind = "nil" =>
        /\ config.HTTPPortMin <= config.HTTPPortMax
        /\ config.VNCPortMin <= config.VNCPortMax
        /\ config.HTTPPortMin # 0 /\ config.HTTPPortMax # 0
        /\ config.VNCPortMin # 0 /\ config.VNCPortMax # 0

\* A Run is inside its last step after a Prepare that was given its own
\* port bounds.
C15_Witness ==
    /\ prepRet.kind = "nil" /\ pc = "inrun" /\ idx = NumSteps
    /\ rawIn.decodes /\ rawIn.vnc_port_min = 5950
    /\ config.VNCPortMin = 5950 /\ config.HTTPPortMax = 9500

\* C16: every Run starts from a context and a runner of its own.  The bag
\* Run hands to its runner holds the four keys Run wrote and nothing else,
\* no step has run or been cleaned up, the runner the Builder holds once
\* line 168 has run is the one of this Run, and every marker or key the bag
\* holds later was put there during this Run: a marker of an earlier Run, or
\* a Cancel made after an earlier Run returned, is never seen.
C16_FreshContextPerRun ==
    /\ (pc = "built" => state = NewStateBag /\ runner = runs - 1)
    /\ (pc # "built" => runner = runs)
    /\ (pc \in {"built", "stored"} =>
          idx = 1 /\ executed = <<>> /\ runLog = <<>> /\ cleanupLog = <<>>)
    /\ (StateCancelled \in state => cancelInRun)
    /\ (StateHalted \in state => haltStep \in Range(runLog))
    /\ state \subseteq NewStateBag \cup {StateCancelled, StateHalted}
                       \cup UNION {StepWrites(j) : j \in Range(runLog)}

\* The second Run has built its context after a first Run that ended with a
\* marker and a Cancel that was made between the two.
C16_Witness ==
    /\ runs = 2 /\ pc = "built"
    /\ prevMarkers # {} /\ preCancelled
    /\ state = NewStateBag

\* C17: nothing removes the output directory or a file in it once it is
\* written.  Only the run of a step changes the directory's contents, so
\* neither the cleanup of any step, nor Run after the runner has returned,
\* nor Cancel removes anything; and the run of every step after
\* stepPrepareOutputDir only adds to what is there.
C17_NothingRemoved ==
    [][/\ (pc # "inrun" => outdir' = outdir)
       /\ (idx # 1 => outdir \subseteq outdir')]_vars

\* A Run halted after files were written has cleaned up every step and
\* returned nil, and the files are still there.
C17_Witness ==
    /\ pc = "idle" /\ result.kind = "nil"
    /\ StateHalted \in state /\ haltStep > 3
    /\ cleanupLog = Reverse(runLog)
    /\ <<"b", "c">> \in outdir

\* C18: every Run that is entered returns, whatever the steps do and whenever
\* Cancel is called; when it returns, every step whose run was invoked has
\* been cleaned up, in reverse order.
C18_RunTerminates ==
    (pc # "idle") ~> (pc = "idle" /\ result.kind # "none"
                                  /\ cleanupLog = Reverse(runLog))

\* The wait for the guest's shell ended in a halt (its timeout expired or it
\* failed), and the Run has returned nil after cleaning up eight steps.
C18_Witness ==
    /\ pc = "idle" /\ result.kind = "nil"
    /\ haltStep = 8 /\ Steps[8] = "stepWaitForSSH" /\ StateHalted \in state
    /\ Len(cleanupLog) = 8

\* C19: Prepare returns nil exactly when the raw configuration decodes,
\* iso_url and ssh_username are not empty, both port ranges are ordered once
\* the zero bounds are defaulted, boot_wait (when given) and the defaulted
\* shutdown_timeout and ssh_wait_timeout parse as durations, and the driver's
\* Verify succeeds.  After a nil return the Builder holds a driver; after a
\* failed Verify it holds none.
C19_PrepareSucceedsIff ==
    prepRet.kind # "none" =>
        LET hmin == IF rawIn.http_port_min = 0 THEN DefaultHTTPPortMin ELSE rawIn.http_port_min
            hmax == IF rawIn.http_port_max = 0 THEN DefaultHTTPPortMax ELSE rawIn.http_port_max
            vmin == IF rawIn.vnc_port_min = 0 THEN DefaultVNCPortMin ELSE rawIn.vnc_port_min
            vmax == IF rawIn.vnc_port_max = 0 THEN DefaultVNCPortMax ELSE rawIn.vnc_port_max
            st == IF rawIn.shutdown_timeout = <<>> THEN DefaultShutdownTimeout
                  ELSE rawIn.shutdown_timeout
            sw == IF rawIn.ssh_wait_timeout = <<>> THEN DefaultSSHWaitTimeout
                  ELSE rawIn.ssh_wait_timeout
            allHold ==
                /\ rawIn.decodes
                /\ rawIn.iso_url # "" /\ rawIn.ssh_username # ""
                /\ hmin <= hmax /\ vmin <= vmax
                /\ (rawIn.boot_wait = <<>> \/ ParseDuration(rawIn.boot_wait).ok)
                /\ ParseDuration(st).ok /\ ParseDuration(sw).ok
                /\ verifyIn
        IN  /\ (prepRet.kind = "nil") <=> allHold
            /\ (prepRet.kind = "nil" => driver # "nil")
            /\ (~verifyIn => driver = "nil")

\* Prepare returned nil for a configuration with its own ports and boot_wait,
\* and the Builder holds the driver.
C19_Witness ==
    /\ prepRet.kind = "nil" /\ driver = "fusion5" /\ verifyIn
    /\ rawIn.http_port_min = 8500 /\ rawIn.vnc_port_max = 6500
    /\ rawIn.boot_wait # <<>>

====
